---- MODULE Spec2Model ----
(***************************************************************************)
(* A model of isochrones/mist/isochrone.py: the MIST_Isochrone engine.     *)
(*                                                                         *)
(* State: the module constants G, MSUN, RSUN fixed at import, the fields   *)
(* the constructor sets (df, ext_table, fehs, ages, the column map and the *)
(* variable i the per-band lambdas close over), the memoized _grid and     *)
(* _grid_Ns, and for every caller (a thread running methods of the engine) *)
(* its position in the method it runs.                                     *)
(*                                                                         *)
(* Numbers.  A table cell or an interpolated value is Num(v) or NaN.       *)
(* Metallicities, ages and masses are integers (the table's values in a    *)
(* fixed unit).  A physical constant is Sci(m, e), standing for m * 10^e   *)
(* with a three-digit mantissa.  Indices are 0-based as in the source;     *)
(* fehs and ages are sequences, so fehs[j + 1] is the source's fehs[j].    *)
(***************************************************************************)
EXTENDS Integers, Sequences, FiniteSets

VARIABLES
    astropy,    \* whether "from astropy import constants" succeeded
    G, MSUN, RSUN,
    df,         \* the Model Table: a sequence of rows, each a tuple of columns
    ext_table,
    fehs, ages,
    mag_i,      \* the variable i of the dict comprehension building _mag
    _grid, _grid_Ns,
    callers,    \* the threads that call into the engine
    ctl,        \* per caller: the frame of the method it is running
    nops,       \* per caller: operations started so far
    builds      \* how many times _make_grid has been entered

vars == <<astropy, G, MSUN, RSUN, df, ext_table, fehs, ages, mag_i,
          _grid, _grid_Ns, callers, ctl, nops, builds>>

engine == <<astropy, G, MSUN, RSUN, df, ext_table, fehs, ages, mag_i, callers>>

----------------------------------------------------------------------------
(* Bounds of the model. *)

MaxRows == 5
MaxOps == 2

(* The metallicities and log-ages a table row may carry. *)
FehVals == {-5, 0}
AgeVals == {90, 95}

----------------------------------------------------------------------------
(* Values. *)

Num(v) == [nan |-> FALSE, v |-> v]
NaN == [nan |-> TRUE, v |-> 0]
Sci(m, e) == [m |-> m, e |-> e]

(* Floating-point addition of a number and an integer offset: NaN absorbs. *)
AddNum(x, k) == IF x.nan THEN NaN ELSE Num(x.v + k)

(* None / a value, for the two memoized fields. *)
None == <<>>
Some(v) == <<v>>

RECURSIVE Pow10(_)
Pow10(k) == IF k = 0 THEN 1 ELSE 10 * Pow10(k - 1)

Max(S) == CHOOSE x \in S : \A y \in S : y <= x

----------------------------------------------------------------------------
(* Module constants, lines 4-14. *)

G_astropy == Sci(667, -10)
MSUN_astropy == Sci(199, 31)
RSUN_astropy == Sci(696, 8)
G_fallback == Sci(667, -13)
MSUN_fallback == Sci(199, 31)
RSUN_fallback == Sci(696, 8)

----------------------------------------------------------------------------
(* The constructor, lines 23-56. *)

mass_col == 2

(* pandas' Series.unique(): the distinct values in order of first          *)
(* appearance; it does not sort.                                           *)
RECURSIVE unique(_)
unique(s) ==
    IF s = <<>> THEN <<>>
    ELSE LET front == unique(SubSeq(s, 1, Len(s) - 1))
             last == s[Len(s)]
         IN IF \E k \in 1..Len(front) : front[k] = last
            THEN front ELSE Append(front, last)

feh_column(t) == [k \in 1..Len(t) |-> t[k][1]]
age_column(t) == [k \in 1..Len(t) |-> t[k][2]]

Ncols == Len(df[1])
Nfeh == Len(fehs)
Nage == Len(ages)

bands == <<"u", "g", "r", "i", "z">>
Bands == {bands[k] : k \in 1..Len(bands)}
_mag_cols == [u |-> 7, g |-> 8, r |-> 9, i |-> 10, z |-> 11]

(* Lines 46-47.  The dict comprehension binds i once per item and every    *)
(* lambda reads that one variable when it is called, so after the loop all *)
(* of them see the value of the last item.  A dict's iteration order is    *)
(* the insertion order on Python 3.7+ and an arbitrary fixed order before: *)
(* the orders below let each band come last.                               *)
Rotate(s, n) == [k \in 1..Len(s) |-> s[((k + n - 1) % Len(s)) + 1]]
ItemOrders == {Rotate(bands, n) : n \in 0..(Len(bands) - 1)}
LoopVariableAfter(order) == _mag_cols[order[Len(order)]]

(* self._mag[band](m, a, f): the icol the lambda passes to interp_value.   *)
LambdaIcol(band) == mag_i

----------------------------------------------------------------------------
(* The extinction module (isochrones/extinction.py). *)

LAMBDA_EFF == [u |-> 3551, g |-> 4686, r |-> 6166, i |-> 7480, z |-> 8932]
EXTINCTION == [u |-> 17, g |-> 13, r |-> 9, i |-> 7, z |-> 5]
extcurve_0(lam) == 30000 \div lam
extcurve(x, lam) == (30000 \div lam) + x

----------------------------------------------------------------------------
(* _mag_fn, lines 79-91. *)

(* np.log10 on the distances the model uses, the powers of ten. *)
Distances == {1, 10, 100}
log10(d) == CHOOSE k \in 0..2 : Pow10(k) = d

(* Lines 81-88 with the two tests nested the other way round: the table   *)
(* counts only on the x_ext == 0 path.                                     *)
A_curve_first(band, AV, x_ext, et) ==
    IF x_ext = 0
    THEN (IF et THEN AV * EXTINCTION[band]
          ELSE AV * extcurve_0(LAMBDA_EFF[band]))
    ELSE AV * extcurve(x_ext, LAMBDA_EFF[band])

(* Lines 81-88. *)
A_of(band, AV, x_ext, et) ==
    LET ext(lam) == IF x_ext = 0 THEN extcurve_0(lam) ELSE extcurve(x_ext, lam)
    IN IF et THEN AV * EXTINCTION[band] ELSE AV * ext(LAMBDA_EFF[band])

(* Line 89. *)
dm_of(distance) == 5 * log10(distance) - 5

(* Line 90. *)
mag_result(intrinsic, dm, A) == AddNum(AddNum(intrinsic, dm), A)

----------------------------------------------------------------------------
(* radius, lines 70-71: sqrt(G*mass*MSUN/10**logg)/RSUN. *)

RECURSIVE SqrtBetween(_, _, _)
SqrtBetween(n, lo, hi) ==
    IF lo >= hi THEN lo
    ELSE LET mid == (lo + hi + 1) \div 2
         IN IF mid * mid <= n THEN SqrtBetween(n, mid, hi)
            ELSE SqrtBetween(n, lo, mid - 1)

(* The square root of m * 10^e, keeping four or five digits. *)
SciSqrt(x) ==
    LET even == (x.e % 2) = 0
        m == IF even THEN x.m * 100 ELSE x.m * 1000
        e == IF even THEN x.e - 2 ELSE x.e - 3
    IN Sci(SqrtBetween(m, 0, 32768), e \div 2)

radius_of(g, msun, rsun, mass, logg) ==
    IF logg.nan THEN NaN
    ELSE LET num == Sci(g.m * mass * msun.m, g.e + msun.e - logg.v)
             root == SciSqrt(num)
         IN Num(Sci((root.m * 1000) \div rsun.m, root.e - 3 - rsun.e))

----------------------------------------------------------------------------
(* _make_grid, lines 106-119. *)

(* df.ix[f]: the selection that drops the age level. *)
ix_feh_only(f, a) == SelectSeq(df, LAMBDA row : row[1] = f)

(* self.df.ix[f, a]: the rows indexed by (f, a), in table order.  pandas   *)
(* raises KeyError when the index holds no such pair.                      *)
ix(f, a) == SelectSeq(df, LAMBDA row : row[1] = f /\ row[2] = a)

(* Line 107: df_list[i][j] is the track of (fehs[j], ages[i]). *)
df_list == [i \in 0..(Nage - 1) |-> [j \in 0..(Nfeh - 1) |->
                ix(fehs[j + 1], ages[i + 1])]]

make_grid_raises ==
    \E i \in 0..(Nage - 1), j \in 0..(Nfeh - 1) :
        Len(ix(fehs[j + 1], ages[i + 1])) = 0

(* Lines 108-109: the nested list is [age][feh]; .T makes it [feh][age]. *)
lens == [j \in 0..(Nfeh - 1) |-> [i \in 0..(Nage - 1) |-> Len(df_list[i][j])]]

lens_max == Max({lens[j][i] : j \in 0..(Nfeh - 1), i \in 0..(Nage - 1)})

(* np.zeros' fill, left where line 116 is missing. *)
pad_zero == Num(0)

(* Line 116. *)
pad_value == NaN

(* Lines 110-116. *)
data == [j \in 0..(Nfeh - 1) |-> [i \in 0..(Nage - 1) |->
            [r \in 0..(lens_max - 1) |-> [c \in 0..(Ncols - 1) |->
                IF r < lens[j][i] THEN Num(df_list[i][j][r + 1][c + 1])
                ELSE pad_value]]]]

----------------------------------------------------------------------------
(* utils.interp_value and utils.interp_values (isochrones/mist/utils.py).  *)
(* The scalar routine takes scalars only and fails on a sequence; either   *)
(* routine yields a number or the missing-value sentinel.                  *)

Kinds == {"scalar", "sequence"}
InterpVals == {Num(4), Num(5), NaN}
scalar_routine_raises(kind) == kind = "sequence"

----------------------------------------------------------------------------
(* The tables an engine is constructed from.  Row k carries its own        *)
(* metallicity and age in columns 0 and 1 and k in the mass column, so     *)
(* masses are non-decreasing within every track and rows are told apart.   *)
(* The (feh, age) index repeats at least one pair, as a table of tracks    *)
(* does: on an index without repeats pandas hands back a single row, not a *)
(* frame, for a full key.                                                  *)

Keys == FehVals \X AgeVals
TableOf(ks) == [k \in 1..Len(ks) |-> <<ks[k][1], ks[k][2], k>>]
RepeatsAKey(ks) == \E a, b \in 1..Len(ks) : a < b /\ ks[a] = ks[b]
KeySeqs == UNION {[1..n -> Keys] : n \in 2..MaxRows}
Tables == {TableOf(ks) : ks \in {k \in KeySeqs : RepeatsAKey(k)}}

(* Three fixed tables: two whose axes' cross product is covered, one with  *)
(* no row for a pair of it.                                                *)
FullTable == TableOf(<<<<-5, 90>>, <<-5, 90>>, <<0, 90>>>>)
SquareTable ==
    TableOf(<<<<0, 95>>, <<-5, 90>>, <<0, 90>>, <<0, 95>>, <<-5, 95>>>>)
HoledTable == TableOf(<<<<-5, 90>>, <<-5, 90>>, <<0, 95>>>>)

----------------------------------------------------------------------------
(* Callers. *)

Frame0 ==
    [pc |-> "idle", op |-> "none", phase |-> "none", prop |-> "none",
     kind |-> "scalar", band |-> "u", icol |-> 0,
     distance |-> 10, AV |-> 0, x_ext |-> 0, et |-> FALSE, dm |-> 0, A |-> 0,
     mass |-> 0, grid |-> None, grid_Ns |-> None,
     intrinsic |-> NaN, result |-> NaN,
     exc |-> "none", caught |-> "none", scalar |-> FALSE, vector |-> FALSE,
     mkruns |-> 0]

(* The state after import and construction (lines 4-14 and 23-56). *)
Constructed(available, table, et, order, threads) ==
    /\ astropy = available
    /\ G = (IF available THEN G_astropy ELSE G_fallback)
    /\ MSUN = (IF available THEN MSUN_astropy ELSE MSUN_fallback)
    /\ RSUN = (IF available THEN RSUN_astropy ELSE RSUN_fallback)
    /\ df = table
    /\ ext_table = et
    /\ fehs = unique(feh_column(table))
    /\ ages = unique(age_column(table))
    /\ mag_i = LoopVariableAfter(order)
    /\ _grid = None
    /\ _grid_Ns = None
    /\ callers = threads
    /\ ctl = [t \in threads |-> Frame0]
    /\ nops = [t \in threads |-> 0]
    /\ builds = 0

Init ==
    \E table \in Tables : Constructed(TRUE, table, FALSE, bands, {1})

InitConc ==
    \E table \in {FullTable, SquareTable} :
        Constructed(TRUE, table, FALSE, bands, {1, 2})

InitMag ==
    \/ \E available \in BOOLEAN, et \in BOOLEAN, order \in ItemOrders :
           Constructed(available, FullTable, et, order, {1})
    \/ Constructed(TRUE, HoledTable, FALSE, bands, {1})

Threads == {1, 2}

At(t, pc) == t \in callers /\ ctl[t].pc = pc

Goto(t, f) == ctl' = [ctl EXCEPT ![t] = f]

(* A caller that runs no method may call one, MaxOps times in all. *)
Free(t) == At(t, "idle") /\ nops[t] < MaxOps

Counted(t) == nops' = [nops EXCEPT ![t] = @ + 1]

(* iso.grid *)
StartGrid(t) ==
    /\ Free(t)
    /\ Goto(t, [Frame0 EXCEPT !.op = "grid", !.pc = "grid_test"])
    /\ Counted(t)
    /\ UNCHANGED <<engine, _grid, _grid_Ns, builds>>

(* iso.grid_Ns *)
StartGridNs(t) ==
    /\ Free(t)
    /\ Goto(t, [Frame0 EXCEPT !.op = "grid_Ns", !.pc = "Ns_test"])
    /\ Counted(t)
    /\ UNCHANGED <<engine, _grid, _grid_Ns, builds>>

(* iso.interp_value(mass, age, feh), line 121: entering the try. *)
StartInterp(t, kind) ==
    /\ Free(t)
    /\ Goto(t, [Frame0 EXCEPT !.op = "interp_value", !.kind = kind, !.icol = 4,
                            !.phase = "try", !.pc = "grid_test"])
    /\ Counted(t)
    /\ UNCHANGED <<engine, _grid, _grid_Ns, builds>>

(* iso.mag[band](mass, age, feh, distance, AV, x_ext), with ext_table left  *)
(* at its default self.ext_table (line 80): lines 81-89, then line 90      *)
(* calls self._mag[band], whose lambda calls interp_value with icol=i.     *)
StartMag(t, band, kind, distance, AV, x_ext, et) ==
    /\ Free(t)
    /\ Goto(t, [Frame0 EXCEPT !.op = "mag", !.band = band, !.kind = kind,
                            !.distance = distance, !.AV = AV,
                            !.x_ext = x_ext, !.et = et,
                            !.A = A_of(band, AV, x_ext, et),
                            !.dm = dm_of(distance),
                            !.icol = LambdaIcol(band),
                            !.phase = "try", !.pc = "grid_test"])
    /\ Counted(t)
    /\ UNCHANGED <<engine, _grid, _grid_Ns, builds>>

(* iso.radius(mass, age, feh), line 71: self.logg is interp_value with     *)
(* icol=4.                                                                 *)
StartRadius(t, mass, kind) ==
    /\ Free(t)
    /\ Goto(t, [Frame0 EXCEPT !.op = "radius", !.mass = mass, !.kind = kind,
                            !.icol = 4, !.phase = "try", !.pc = "grid_test"])
    /\ Counted(t)
    /\ UNCHANGED <<engine, _grid, _grid_Ns, builds>>

(* An exception raised in caller t's frame f.  Inside the try of           *)
(* interp_value (line 122) the bare except of line 127 catches it and      *)
(* line 129 starts over with the arguments of interp_values; anywhere else *)
(* it propagates out of the operation.                                     *)
Raised(f, name) ==
    IF f.phase = "try"
    THEN [f EXCEPT !.phase = "except", !.caught = name, !.pc = "grid_test"]
    ELSE [f EXCEPT !.exc = name, !.pc = "done"]

(* Line 96. *)
GridTest(t) ==
    /\ At(t, "grid_test")
    /\ IF _grid = None
       THEN /\ Goto(t, [ctl[t] EXCEPT !.pc = "mk_build", !.prop = "grid",
                                      !.mkruns = @ + 1])
            /\ builds' = builds + 1
       ELSE /\ Goto(t, [ctl[t] EXCEPT !.pc = "grid_ret"])
            /\ UNCHANGED builds
    /\ UNCHANGED <<engine, _grid, _grid_Ns, nops>>

(* Line 102. *)
NsTest(t) ==
    /\ At(t, "Ns_test")
    /\ IF _grid_Ns = None
       THEN /\ Goto(t, [ctl[t] EXCEPT !.pc = "mk_build", !.prop = "grid_Ns",
                                      !.mkruns = @ + 1])
            /\ builds' = builds + 1
       ELSE /\ Goto(t, [ctl[t] EXCEPT !.pc = "Ns_ret"])
            /\ UNCHANGED builds
    /\ UNCHANGED <<engine, _grid, _grid_Ns, nops>>

(* Lines 107-116: the locals df_list, lens and data. *)
MakeGridBuild(t) ==
    /\ At(t, "mk_build")
    /\ IF make_grid_raises
       THEN Goto(t, Raised(ctl[t], "KeyError"))
       ELSE Goto(t, [ctl[t] EXCEPT !.pc = "mk_set_grid"])
    /\ UNCHANGED <<engine, _grid, _grid_Ns, nops, builds>>

(* Line 118. *)
SetGrid(t) ==
    /\ At(t, "mk_set_grid")
    /\ _grid' = Some(data)
    /\ Goto(t, [ctl[t] EXCEPT !.pc = "mk_set_Ns"])
    /\ UNCHANGED <<engine, _grid_Ns, nops, builds>>

(* Line 119, and the return to the property that called _make_grid. *)
SetGridNs(t) ==
    /\ At(t, "mk_set_Ns")
    /\ _grid_Ns' = Some(lens)
    /\ Goto(t, [ctl[t] EXCEPT
                    !.pc = IF ctl[t].prop = "grid" THEN "grid_ret" ELSE "Ns_ret"])
    /\ UNCHANGED <<engine, _grid, nops, builds>>

(* Line 98: the property returns self._grid, to the caller of iso.grid or  *)
(* as an argument of line 124 or 131, whose next argument is self.grid_Ns. *)
GridReturn(t) ==
    /\ At(t, "grid_ret")
    /\ Goto(t, [ctl[t] EXCEPT !.grid = _grid,
                    !.pc = IF ctl[t].op = "grid" THEN "done" ELSE "Ns_test"])
    /\ UNCHANGED <<engine, _grid, _grid_Ns, nops, builds>>

(* Line 104. *)
NsReturn(t) ==
    /\ At(t, "Ns_ret")
    /\ Goto(t, [ctl[t] EXCEPT !.grid_Ns = _grid_Ns,
                    !.pc = IF ctl[t].op = "grid_Ns" THEN "done"
                           ELSE IF ctl[t].phase = "try" THEN "call_scalar"
                           ELSE "call_vector"])
    /\ UNCHANGED <<engine, _grid, _grid_Ns, nops, builds>>

(* What the operation returns once interp_value has returned v. *)
Returned(f, v) ==
    [f EXCEPT !.intrinsic = v, !.pc = "done",
              !.result = IF f.op = "mag" THEN mag_result(v, f.dm, f.A)
                         ELSE IF f.op = "radius"
                         THEN radius_of(G, MSUN, RSUN, f.mass, v)
                         ELSE v]

(* Line 123. *)
CallScalar(t) ==
    /\ At(t, "call_scalar")
    /\ IF scalar_routine_raises(ctl[t].kind)
       THEN Goto(t, Raised([ctl[t] EXCEPT !.scalar = TRUE], "TypeError"))
       ELSE \E v \in InterpVals :
                Goto(t, Returned([ctl[t] EXCEPT !.scalar = TRUE], v))
    /\ UNCHANGED <<engine, _grid, _grid_Ns, nops, builds>>

(* Line 129. *)
CallVector(t) ==
    /\ At(t, "call_vector")
    /\ \E v \in InterpVals :
           Goto(t, Returned([ctl[t] EXCEPT !.vector = TRUE], v))
    /\ UNCHANGED <<engine, _grid, _grid_Ns, nops, builds>>

(* The operation is over; the caller is free to start another. *)
Return(t) ==
    /\ At(t, "done")
    /\ Goto(t, Frame0)
    /\ UNCHANGED <<engine, _grid, _grid_Ns, nops, builds>>

Next ==
    \/ \E t \in Threads : StartGrid(t)
    \/ \E t \in Threads : StartGridNs(t)
    \/ \E t \in Threads, kind \in Kinds : StartInterp(t, kind)
    \/ \E t \in Threads : GridTest(t)
    \/ \E t \in Threads : NsTest(t)
    \/ \E t \in Threads : MakeGridBuild(t)
    \/ \E t \in Threads : SetGrid(t)
    \/ \E t \in Threads : SetGridNs(t)
    \/ \E t \in Threads : GridReturn(t)
    \/ \E t \in Threads : NsReturn(t)
    \/ \E t \in Threads : CallScalar(t)
    \/ \E t \in Threads : CallVector(t)
    \/ \E t \in Threads : Return(t)

NextMag ==
    \/ \E t \in Threads, band \in Bands, kind \in Kinds, distance \in Distances,
          AV \in 0..1, x_ext \in 0..1 :
           StartMag(t, band, kind, distance, AV, x_ext, ext_table)
    \/ \E t \in Threads, mass \in 1..2, kind \in Kinds : StartRadius(t, mass, kind)
    \/ \E t \in Threads : GridTest(t)
    \/ \E t \in Threads : NsTest(t)
    \/ \E t \in Threads : MakeGridBuild(t)
    \/ \E t \in Threads : SetGrid(t)
    \/ \E t \in Threads : SetGridNs(t)
    \/ \E t \in Threads : GridReturn(t)
    \/ \E t \in Threads : NsReturn(t)
    \/ \E t \in Threads : CallScalar(t)
    \/ \E t \in Threads : CallVector(t)
    \/ \E t \in Threads : Return(t)

Spec == Init /\ [][Next]_vars
SpecConc == InitConc /\ [][Next]_vars
SpecMag == InitMag /\ [][NextMag]_vars

----------------------------------------------------------------------------
(* The claims. *)

Built == _grid # None /\ _grid_Ns # None
TheGrid == _grid[1]
TheNs == _grid_Ns[1]
Js == 0..(Len(fehs) - 1)
Is == 0..(Len(ages) - 1)
Cs == 0..(Len(df[1]) - 1)

(* The positions of the table rows tagged (f, a). *)
RowsOf(f, a) == {k \in 1..Len(df) : df[k][1] = f /\ df[k][2] = a}
TrackLen(j, i) == Cardinality(RowsOf(fehs[j + 1], ages[i + 1]))
Increasing(s) == \A a, b \in 1..Len(s) : a < b => s[a] < s[b]
Finished(t) == ctl[t].pc = "done" /\ ctl[t].exc = "none"

(* C1: the magnitude function of band b interpolates column _mag_cols[b],  *)
(* and the column map sends different bands to different columns (so two   *)
(* bands never interpolate the same column).                               *)
C1_BandColumn ==
    /\ \A b1, b2 \in Bands : b1 # b2 => _mag_cols[b1] # _mag_cols[b2]
    /\ \A t \in callers :
           (ctl[t].op = "mag" /\ (ctl[t].scalar \/ ctl[t].vector))
               => ctl[t].icol = _mag_cols[ctl[t].band]

(* C2: once _make_grid has run, every row at or beyond grid_Ns[j, i] is    *)
(* NaN in every column and no row below it is.                             *)
C2_Padding ==
    Built =>
        \A j \in DOMAIN TheGrid : \A i \in DOMAIN TheGrid[j] :
            \A r \in DOMAIN TheGrid[j][i] : \A c \in DOMAIN TheGrid[j][i][r] :
                /\ r >= TheNs[j][i] => TheGrid[j][i][r][c] = NaN
                /\ r < TheNs[j][i] => ~TheGrid[j][i][r][c].nan

C2_Witness ==
    /\ Built
    /\ \E j \in Js, i \in Is :
           \E r \in DOMAIN TheGrid[j][i] : r >= TheNs[j][i] /\ TheNs[j][i] > 0
    /\ \E j \in Js, i \in Is : TheNs[j][i] > 1

C4_BuiltOnce ==
    /\ (\A t \in callers : nops[t] = 0) => (_grid = None /\ _grid_Ns = None)
    /\ (\E t \in callers : nops[t] >= 1 /\ ctl[t].pc \in {"done", "idle"}) => Built
    /\ builds <= 1

(* C5: with concurrent first accesses _make_grid runs at most once, and no *)
(* caller holds a Grid while the Length Table is still unset.              *)
C5_AtMostOnce ==
    /\ builds <= 1
    /\ \A t \in callers :
           (ctl[t].pc = "Ns_test" /\ ctl[t].grid # None) => _grid_Ns # None

(* C6: when a pair of the axes' cross product has no row, building the     *)
(* grid does not raise, and leaves 0 in that pair's Length Table entry and *)
(* NaN in all of its track.                                                *)
C6_EmptyTrack ==
    /\ \A t \in callers : ctl[t].exc # "KeyError" /\ ctl[t].caught # "KeyError"
    /\ Built =>
           \A j \in Js, i \in Is :
               TrackLen(j, i) = 0 =>
                   /\ TheNs[j][i] = 0
                   /\ \A r \in DOMAIN TheGrid[j][i] : \A c \in Cs :
                          TheGrid[j][i][r][c] = NaN

(* C7: fehs and ages are strictly increasing, without duplicates, and Nfeh *)
(* and Nage are their lengths.                                             *)
C7_AxesSorted ==
    /\ Increasing(fehs) /\ Increasing(ages)
    /\ Nfeh = Len(fehs) /\ Nage = Len(ages)

(* C8: a magnitude call returns what its interpolation gave plus the       *)
(* distance modulus 5*log10(distance) - 5 plus A, where A is               *)
(* AV*EXTINCTION[band] if ext_table is set whatever x_ext is, otherwise    *)
(* AV*extcurve_0(LAMBDA_EFF[band]) if x_ext is zero and                    *)
(* AV*extcurve(x_ext)(LAMBDA_EFF[band]) if not; AV = 0 makes A zero and    *)
(* distance = 10 makes the distance modulus zero.                          *)
C8_MagFormula ==
    \A t \in callers :
        (ctl[t].op = "mag" /\ Finished(t)) =>
            LET f == ctl[t]
                lam == LAMBDA_EFF[f.band]
                A == IF f.et THEN f.AV * EXTINCTION[f.band]
                     ELSE IF f.x_ext = 0 THEN f.AV * extcurve_0(lam)
                     ELSE f.AV * extcurve(f.x_ext, lam)
                modulus == CHOOSE m \in -5..5 :
                               m % 5 = 0 /\ Pow10((m + 5) \div 5) = f.distance
            IN /\ f.result = AddNum(f.intrinsic, modulus + A)
               /\ f.AV = 0 => f.result = AddNum(f.intrinsic, modulus)
               /\ f.distance = 10 => f.result = AddNum(f.intrinsic, A)

C8_Witness ==
    \E t \in callers :
        /\ ctl[t].op = "mag" /\ Finished(t)
        /\ ctl[t].et /\ ctl[t].x_ext # 0 /\ ctl[t].AV # 0
        /\ ctl[t].distance = 100
        /\ ~ctl[t].result.nan

(* C9: without astropy the constants are the CGS values (G of order 1e-8,  *)
(* MSUN of order 1e33, RSUN of order 1e10) and radius() gives what it      *)
(* gives with astropy's constants.                                         *)
C9_FallbackCGS ==
    ~astropy =>
        /\ G.e + 2 = -8 /\ MSUN.e + 2 = 33 /\ RSUN.e + 2 = 10
        /\ \A t \in callers :
               (ctl[t].op = "radius" /\ Finished(t)) =>
                   ctl[t].result = radius_of(G_astropy, MSUN_astropy, RSUN_astropy,
                                             ctl[t].mass, ctl[t].intrinsic)

(* C10: interp_value runs the vector routine exactly for sequence inputs,  *)
(* answers a scalar query by the scalar routine alone, and does not catch  *)
(* a failure of the grid's construction to go on with the vector branch.   *)
C10_ShapeDispatch ==
    \A t \in callers :
        ctl[t].op = "interp_value" =>
            /\ ctl[t].vector => ctl[t].kind = "sequence"
            /\ (Finished(t) /\ ctl[t].kind = "sequence") => ctl[t].vector
            /\ (Finished(t) /\ ctl[t].kind = "scalar")
                   => (ctl[t].scalar /\ ~ctl[t].vector)
            /\ ctl[t].caught # "KeyError"

====
